---- MODULE Spec2Model ----
(***************************************************************************)
(* A model of the two variants of the swirl animation: src/ematrix.c and   *)
(* src/unnamed/part_000 (the variant with the 'r' colour-mode toggle).     *)
(*                                                                         *)
(* The program is one thread: main() with its start-up, its main loop and  *)
(* its two exits.  pc is the position of main().                           *)
(*                                                                         *)
(* Numbers.  A C float is modelled as a fixed-point integer counting       *)
(* hundredths (FP = 100): 0.76f is 76, 2.0f is 200.  Every float operation *)
(* rounds to the nearest representable value, as the hardware does.  The   *)
(* libm functions expf, cosf and sinf are given by their values, rounded   *)
(* to the nearest hundredth, at the arguments the model reaches.           *)
(*                                                                         *)
(* The swarm.  The N particles never read or write one another: respawn()  *)
(* and the body of the frame loop touch P[i] alone.  The model keeps N and *)
(* the loop index i as they are and holds the contents of one particle,    *)
(* P[w], for an index w chosen when the array is allocated (the first or   *)
(* the last).  A run of loop iterations over the other particles is one    *)
(* step that moves i.                                                      *)
(***************************************************************************)
EXTENDS Integers, Sequences, FiniteSets, TLC

VARIABLES
    variant,      \* which program runs: "ematrix" or "part_000"
    pc,           \* position of main()
    term,         \* terminal mode: "shell" (cooked, echo) or "curses" (initscr/noecho)
    colors,       \* what has_colors() answers on this terminal
    exit_status,  \* the process's exit status, -1 while it runs
    rows, cols,   \* main's rows, cols
    N,            \* main's N
    alloc,        \* main's pointer P: "unset", "ok" or "null"
    w,            \* index of the particle whose contents the model holds
    P,            \* P[w]: vx0, vy0, born, ch (and for_rows, for_cols: the
                  \* dimensions its last respawn() was called with)
    i,            \* loop index of the for loop main is in
    clock,        \* CLOCK_MONOTONIC, in seconds
    tnow,         \* main's tnow
    ch,           \* main's ch: the key getch() returned, until it is tested
    bh_mode,      \* part_000's bh_mode
    screen,       \* the mvaddch calls for P[w] since the last erase()/clear()
    cleared_for,  \* <<rows, cols>> main held when the surface was last clear()ed
    prev_modes    \* history: bh_mode before each of the last two toggles

vars == <<variant, pc, term, colors, exit_status, rows, cols, N, alloc, w, P, i,
          clock, tnow, ch, bh_mode, screen, cleared_for, prev_modes>>

-----------------------------------------------------------------------------
(* Bounds of the model *)

\* The monotonic clock is followed up to this many seconds, then stands still.
MaxClock == 2

\* Terminal sizes getmaxyx can report, as <<rows, cols>>.
Sizes == {<<24, 80>>, <<40, 120>>}

\* The values rand() returns at each of its call sites.
RadiusRands == {0, 70, 1194, 1380}
AngleRands == {0, 204, 1035}
GlyphRands == {0, 70}
MutateRands == {0, 1}
ShadowRands == {0, 1}

\* The keys getch() returns; "ERR" is no key pending.
Keys == {"ERR", "q", "Q", "r", "R", "x"}

-----------------------------------------------------------------------------
(* float arithmetic in hundredths *)

FP == 100

\* n / d rounded to the nearest integer, halves away from zero (d > 0).
RoundDiv(n, d) ==
    IF n >= 0 THEN (2 * n + d) \div (2 * d) ELSE -((2 * (-n) + d) \div (2 * d))

fmul(a, b) == RoundDiv(a * b, FP)
fdiv(a, b) == IF b > 0 THEN RoundDiv(a * FP, b) ELSE -RoundDiv(a * FP, -b)
fminf(a, b) == IF a < b THEN a ELSE b
fabsf(a) == IF a < 0 THEN -a ELSE a
lroundf(a) == RoundDiv(a, FP)

RECURSIVE SqrtSearch(_, _, _)
SqrtSearch(v, lo, hi) ==
    IF lo >= hi THEN lo
    ELSE LET mid == (lo + hi + 1) \div 2
         IN IF mid * mid <= v THEN SqrtSearch(v, mid, hi)
            ELSE SqrtSearch(v, lo, mid - 1)

\* sqrtf: the square root of a/FP, in hundredths, rounded to nearest.
sqrtf(a) ==
    LET v == a * FP
        s == SqrtSearch(v, 0, 20000)
    IN IF v - s * s > s THEN s + 1 ELSE s

\* expf at the arguments -0.5f * age the model reaches.
expf(x) ==
    CASE x = 0 -> 100
      [] x = 68 -> 197
      [] x = 135 -> 386
      [] x = 203 -> 761
      [] x = 270 -> 1488
      [] x = -68 -> 51
      [] x = -135 -> 26
      [] x = -203 -> 13
      [] x = -270 -> 7
      [] x = -338 -> 3
      [] x = -405 -> 2

\* cosf and sinf at the arguments the model reaches: w * age in expA, and the
\* launch angles of respawn.
CosTable(x) ==
    CASE x = 0 -> 100
      [] x = 117 -> 39
      [] x = 235 -> -70
      [] x = 352 -> -93
      [] x = 470 -> -1
      [] x = 587 -> 92
      [] x = 705 -> 72
      [] x = 93 -> 60
      [] x = 157 -> 0
      [] x = 314 -> -100
      [] x = 471 -> 0
      [] x = 543 -> 66
      [] x = 628 -> 100

SinTable(x) ==
    CASE x = 0 -> 0
      [] x = 117 -> 92
      [] x = 235 -> 71
      [] x = 352 -> -37
      [] x = 470 -> -100
      [] x = 587 -> -40
      [] x = 705 -> 69
      [] x = 93 -> 80
      [] x = 157 -> 100
      [] x = 314 -> 0
      [] x = 471 -> -100
      [] x = 543 -> -75
      [] x = 628 -> 0

cosf(x) == CosTable(fabsf(x))
sinf(x) == IF x < 0 THEN -SinTable(-x) ELSE SinTable(x)

-----------------------------------------------------------------------------
(* The program's constants *)

RAND_MAX == 1380          \* stands for the platform's RAND_MAX
TWO_PI == 628             \* 2.0f * (float)M_PI
SPAWN_INNER == 35         \* maxr * 0.35f
SPAWN_OUTER_E == 95       \* ematrix.c:  maxr * 0.95f
SPAWN_OUTER_B == 295      \* part_000:   maxr * 2.95f
DENSITY_E == 12           \* ematrix.c:  (rows * cols) / 12
DENSITY_B == 20           \* part_000:   (rows * cols) / 20
MIN_N == 200              \* if (N < 200) N = 200
SCALE == 76
RADIUS_MULT == 200
X_MULT == 200
Y_MULT == 100
SPEED == 135
MIN_R == 300
MUTATE_MOD == 28          \* (rand() % 28) == 0
SHADOW_FRAC == 18         \* shadow_r = 0.18f * maxr_vis

SpawnOuter(v) == IF v = "ematrix" THEN SPAWN_OUTER_E ELSE SPAWN_OUTER_B
Density(v) == IF v = "ematrix" THEN DENSITY_E ELSE DENSITY_B

-----------------------------------------------------------------------------
(* The helper functions *)

frandf(a, b, rnd) == a + RoundDiv((b - a) * rnd, RAND_MAX)

set ==
    << "0", "1", "2", "3", "4", "5", "6", "7", "8", "9",
       "A", "B", "C", "D", "E", "F", "G", "H", "I", "J", "K", "L", "M",
       "N", "O", "P", "Q", "R", "S", "T", "U", "V", "W", "X", "Y", "Z",
       "a", "b", "c", "d", "e", "f", "g", "h", "i", "j", "k", "l", "m",
       "n", "o", "p", "q", "r", "s", "t", "u", "v", "w", "x", "y", "z",
       "@", "#", "$", "%", "&", "*", "+", "=", "-" >>

strlen(s) == Len(s)

\* Mutant of rand_char: the modulus one short of the string's length.
rand_char_OneShort(rnd) == set[(rnd % (strlen(set) - 1)) + 1]

rand_char(rnd) == set[(rnd % strlen(set)) + 1]

\* Mutant of expA: M[1][0] written with the diagonal's c + k * B.
expA_DiagonalCopied(t) ==
    LET wc == 87
        et == expf(fmul(-50, t))
        c == cosf(fmul(wc, t))
        s == sinf(fmul(wc, t))
        k == IF fabsf(wc) < 0 THEN t ELSE fdiv(s, wc)
    IN << fmul(et, c + fmul(k, -50)),
          fmul(et, fmul(k, -100)),
          fmul(et, c + fmul(k, 100)),
          fmul(et, c + fmul(k, 50)) >>

\* expA: M as <<M00, M01, M10, M11>>.
expA(t) ==
    LET wc == 87
        et == expf(fmul(-50, t))
        c == cosf(fmul(wc, t))
        s == sinf(fmul(wc, t))
        k == IF fabsf(wc) < 0 THEN t ELSE fdiv(s, wc)
        B00 == -50
        B01 == -100
        B10 == 100
        B11 == 50
    IN << fmul(et, c + fmul(k, B00)),
          fmul(et, fmul(k, B01)),
          fmul(et, fmul(k, B10)),
          fmul(et, c + fmul(k, B11)) >>

now_seconds == clock * FP

\* Mutant of respawn: the ring measured on the larger half-dimension.
respawn_LargerHalf(v, c, r, rr, ra, rg) ==
    LET cx == fmul((c - 1) * FP, 50)
        cy == fmul((r - 1) * FP, 50)
        maxr == IF cx < cy THEN cy ELSE cx
        rad == frandf(fmul(maxr, SPAWN_INNER), fmul(maxr, SpawnOuter(v)), rr)
        a == frandf(0, TWO_PI, ra)
    IN [vx0 |-> fmul(rad, cosf(a)),
        vy0 |-> fmul(rad, sinf(a)),
        born |-> now_seconds,
        ch |-> rand_char(rg),
        for_rows |-> r,
        for_cols |-> c]

\* respawn(&P[i], c, r): the particle it writes, given the three rand() results.
respawn(v, c, r, rr, ra, rg) ==
    LET cx == fmul((c - 1) * FP, 50)
        cy == fmul((r - 1) * FP, 50)
        maxr == fminf(cx, cy)
        rad == frandf(fmul(maxr, SPAWN_INNER), fmul(maxr, SpawnOuter(v)), rr)
        a == frandf(0, TWO_PI, ra)
    IN [vx0 |-> fmul(rad, cosf(a)),
        vy0 |-> fmul(rad, sinf(a)),
        born |-> now_seconds,
        ch |-> rand_char(rg),
        for_rows |-> r,
        for_cols |-> c]

-----------------------------------------------------------------------------
(* The frame loop's computation for one particle (lines 130-140 of         *)
(* ematrix.c, 147-157 of part_000).                                        *)

Centre(n) == fmul((n - 1) * FP, 50)

Place(p, t, c, r) ==
    LET age == fmul(t - p.born, SPEED)
        M == expA(age)
        vx == fmul(fmul(RADIUS_MULT, SCALE), fmul(M[1], p.vx0) + fmul(M[2], p.vy0))
        vy == fmul(fmul(RADIUS_MULT, SCALE), fmul(M[3], p.vx0) + fmul(M[4], p.vy0))
        sx == fmul(X_MULT, vx)
        sy == fmul(Y_MULT, vy)
    IN [age |-> age,
        r |-> sqrtf(fmul(vx, vx) + fmul(vy, vy)),
        x |-> lroundf(Centre(c) + sx),
        y |-> lroundf(Centre(r) + sy)]

\* Mutant of MustRespawn: the far edges tested with > instead of >=.
MustRespawn_EdgeIncluded(f, c, r) ==
    f.r < MIN_R \/ f.x < 0 \/ f.x > c \/ f.y < 0 \/ f.y > r

\* The test of line 143 (160): respawn instead of drawing.
MustRespawn(f, c, r) ==
    f.r < MIN_R \/ f.x < 0 \/ f.x >= c \/ f.y < 0 \/ f.y >= r

\* draw_it: whether mvaddch is reached.  Only part_000's black-hole mode, on a
\* terminal with colours, skips a particle: three times in four in the shadow.
DrawIt(v, hc, mode, f, c, r, rs) ==
    IF v = "part_000" /\ hc /\ mode = 1
    THEN LET maxr_vis == fminf(fdiv(Centre(c), X_MULT), fdiv(Centre(r), Y_MULT))
             shadow_r == fmul(SHADOW_FRAC, maxr_vis)
         IN ~(f.r < shadow_r /\ (rs % 4) # 0)
    ELSE TRUE

\* Mutant of IsQuit: any key pressed ends the loop.
IsQuit_AnyKey(k) == k # "ERR"

\* Mutant of Toggle: the key sets the mode instead of flipping it.
Toggle_Sets(m) == 1

IsQuit(k) == k = "q" \/ k = "Q"
IsToggle(v, k) == v = "part_000" /\ (k = "r" \/ k = "R")
Toggle(m) == IF m = 0 THEN 1 ELSE 0

SwarmSize(v, r, c) ==
    LET n == (r * c) \div Density(v)
    IN IF n < MIN_N THEN MIN_N ELSE n

ZeroParticle ==
    [vx0 |-> 0, vy0 |-> 0, born |-> 0, ch |-> "", for_rows |-> 0, for_cols |-> 0]

LastTwo(s) == IF Len(s) > 2 THEN Tail(s) ELSE s

-----------------------------------------------------------------------------
(* main() *)

Init ==
    /\ variant \in {"ematrix", "part_000"}
    /\ colors \in BOOLEAN
    /\ pc = "initscr"
    /\ term = "shell"
    /\ exit_status = -1
    /\ rows = 0
    /\ cols = 0
    /\ N = 0
    /\ alloc = "unset"
    /\ w = 0
    /\ P = ZeroParticle
    /\ i = 0
    /\ clock = 0
    /\ tnow = 0
    /\ ch = "ERR"
    /\ bh_mode = 0
    /\ screen = {}
    /\ cleared_for = <<0, 0>>
    /\ prev_modes = <<>>

\* initscr() ... timeout(0), and the colour pairs.
Initscr ==
    /\ pc = "initscr"
    /\ term' = "curses"
    /\ pc' = "getmaxyx0"
    /\ UNCHANGED <<variant, colors, exit_status, rows, cols, N, alloc, w, P, i,
                   clock, tnow, ch, bh_mode, screen, cleared_for,
                   prev_modes>>

\* getmaxyx(stdscr, rows, cols); N = (rows * cols) / D; if (N < 200) N = 200.
Getmaxyx0 ==
    /\ pc = "getmaxyx0"
    /\ \E sz \in Sizes :
         /\ rows' = sz[1]
         /\ cols' = sz[2]
         /\ N' = SwarmSize(variant, sz[1], sz[2])
         /\ cleared_for' = sz
    /\ pc' = "calloc"
    /\ UNCHANGED <<variant, term, colors, exit_status, alloc, w, P, i, clock,
                   tnow, ch, bh_mode, screen, prev_modes>>

\* P = calloc(N, sizeof(Particle)): zeroed storage, or NULL.
Calloc ==
    /\ pc = "calloc"
    /\ \/ /\ alloc' = "ok"
          /\ w' \in {0, N - 1}
          /\ P' = ZeroParticle
          /\ i' = 0
          /\ pc' = "init_spawn"
       \/ /\ alloc' = "null"
          /\ pc' = "fail_endwin"
          /\ UNCHANGED <<w, P, i>>
    /\ UNCHANGED <<variant, term, colors, exit_status, rows, cols, N, clock,
                   tnow, ch, bh_mode, screen, cleared_for, prev_modes>>

\* Mutant of FailEndwin: exit(1) without endwin().
FailEndwin_Missing ==
    /\ pc = "fail_endwin"
    /\ pc' = "fail_exit"
    /\ UNCHANGED <<variant, term, colors, exit_status, rows, cols, N, alloc, w,
                   P, i, clock, tnow, ch, bh_mode, screen, cleared_for,
                   prev_modes>>

\* if (!P) endwin(), exit(1);
FailEndwin ==
    /\ pc = "fail_endwin"
    /\ term' = "shell"
    /\ pc' = "fail_exit"
    /\ UNCHANGED <<variant, colors, exit_status, rows, cols, N, alloc, w, P, i,
                   clock, tnow, ch, bh_mode, screen, cleared_for,
                   prev_modes>>

FailExit ==
    /\ pc = "fail_exit"
    /\ exit_status' = 1
    /\ pc' = "exited"
    /\ UNCHANGED <<variant, term, colors, rows, cols, N, alloc, w, P, i, clock,
                   tnow, ch, bh_mode, screen, cleared_for, prev_modes>>

\* One iteration of  for (i = 0; i < N; i++) respawn(&P[i], cols, rows)  on P[w].
RespawnWatched(loop) ==
    /\ pc = loop
    /\ i < N
    /\ i = w
    /\ \E rr \in RadiusRands, ra \in AngleRands, rg \in GlyphRands :
         P' = respawn(variant, cols, rows, rr, ra, rg)
    /\ i' = i + 1
    /\ UNCHANGED <<variant, pc, term, colors, exit_status, rows, cols, N, alloc,
                   w, clock, tnow, ch, bh_mode, screen, cleared_for,
                   prev_modes>>

\* The iterations of a loop over the particles before, or after, P[w].
OtherParticles(loop) ==
    /\ pc = loop
    /\ i < N
    /\ i # w
    /\ i' = IF i < w THEN w ELSE N
    /\ UNCHANGED <<variant, pc, term, colors, exit_status, rows, cols, N, alloc,
                   w, P, clock, tnow, ch, bh_mode, screen, cleared_for, prev_modes>>

\* i < N fails: the loop ends.
LoopEnds(loop, next) ==
    /\ pc = loop
    /\ i >= N
    /\ pc' = next
    /\ UNCHANGED <<variant, term, colors, exit_status, rows, cols, N, alloc, w,
                   P, i, clock, tnow, ch, bh_mode, screen, cleared_for, prev_modes>>

InitSpawn == RespawnWatched("init_spawn")
InitSpawnOthers == OtherParticles("init_spawn")
InitSpawnEnds == LoopEnds("init_spawn", "getch")

\* int ch = getch();
Getch ==
    /\ pc = "getch"
    /\ ch' \in Keys
    /\ pc' = "keys"
    /\ UNCHANGED <<variant, term, colors, exit_status, rows, cols, N, alloc, w,
                   P, i, clock, tnow, bh_mode, screen, cleared_for,
                   prev_modes>>

\* if (ch == 'q' || ch == 'Q') break;
\* if (ch == 'r' || ch == 'R') bh_mode = !bh_mode;       (part_000 only)
\* Nothing reads ch after these tests, and the next iteration declares it
\* anew: the model holds the key only from getch() to here.
HandleKey ==
    /\ pc = "keys"
    /\ IF IsQuit(ch)
       THEN /\ pc' = "free"
            /\ UNCHANGED <<bh_mode, prev_modes>>
       ELSE /\ pc' = "getmaxyx"
            /\ IF IsToggle(variant, ch)
               THEN /\ bh_mode' = Toggle(bh_mode)
                    /\ prev_modes' = LastTwo(Append(prev_modes, bh_mode))
               ELSE UNCHANGED <<bh_mode, prev_modes>>
    /\ ch' = "ERR"
    /\ UNCHANGED <<variant, term, colors, exit_status, rows, cols, N, alloc, w,
                   P, i, clock, tnow, screen, cleared_for>>

\* getmaxyx(stdscr, newr, newc); if (newr != rows || newc != cols) { rows = newr; cols = newc;
Getmaxyx ==
    /\ pc = "getmaxyx"
    /\ \E sz \in Sizes :
         IF sz[1] # rows \/ sz[2] # cols
         THEN /\ rows' = sz[1]
              /\ cols' = sz[2]
              /\ pc' = "clear"
         ELSE /\ pc' = "erase"
              /\ UNCHANGED <<rows, cols>>
    /\ UNCHANGED <<variant, term, colors, exit_status, N, alloc, w, P, i, clock,
                   tnow, ch, bh_mode, screen, cleared_for, prev_modes>>

\* Mutant of Clear: the resize branch without its clear().
Clear_Missing ==
    /\ pc = "clear"
    /\ i' = 0
    /\ pc' = "respawn_all"
    /\ UNCHANGED <<variant, term, colors, exit_status, rows, cols, N, alloc, w,
                   P, clock, tnow, ch, bh_mode, screen, cleared_for, prev_modes>>

\* clear();
Clear ==
    /\ pc = "clear"
    /\ screen' = {}
    /\ cleared_for' = <<rows, cols>>
    /\ i' = 0
    /\ pc' = "respawn_all"
    /\ UNCHANGED <<variant, term, colors, exit_status, rows, cols, N, alloc, w,
                   P, clock, tnow, ch, bh_mode, prev_modes>>

RespawnAll == RespawnWatched("respawn_all")
RespawnAllOthers == OtherParticles("respawn_all")
RespawnAllEnds == LoopEnds("respawn_all", "erase")

\* Mutant of BeginFrame: the timestamp is not taken again for the frame.
BeginFrame_StaleNow ==
    /\ pc = "erase"
    /\ screen' = {}
    /\ i' = 0
    /\ pc' = "frame"
    /\ UNCHANGED <<variant, term, colors, exit_status, rows, cols, N, alloc, w,
                   P, clock, tnow, ch, bh_mode, cleared_for, prev_modes>>

\* erase(); float tnow = now_seconds();
BeginFrame ==
    /\ pc = "erase"
    /\ screen' = {}
    /\ tnow' = now_seconds
    /\ i' = 0
    /\ pc' = "frame"
    /\ UNCHANGED <<variant, term, colors, exit_status, rows, cols, N, alloc, w,
                   P, clock, ch, bh_mode, cleared_for, prev_modes>>

\* The body of the frame loop on P[w].
FrameParticle ==
    /\ pc = "frame"
    /\ i < N
    /\ i = w
    /\ LET f == Place(P, tnow, cols, rows)
       IN IF MustRespawn(f, cols, rows)
          THEN /\ \E rr \in RadiusRands, ra \in AngleRands, rg \in GlyphRands :
                    P' = respawn(variant, cols, rows, rr, ra, rg)
               /\ UNCHANGED screen
          ELSE /\ \E rm \in MutateRands, rg \in GlyphRands, rs \in ShadowRands :
                    LET glyph == IF rm % MUTATE_MOD = 0 THEN rand_char(rg) ELSE P.ch
                    IN /\ P' = [P EXCEPT !.ch = glyph]
                       /\ screen' = IF DrawIt(variant, colors, bh_mode, f, cols, rows, rs)
                                    THEN screen \cup {[y |-> f.y, x |-> f.x, ch |-> glyph]}
                                    ELSE screen
    /\ i' = i + 1
    /\ UNCHANGED <<variant, pc, term, colors, exit_status, rows, cols, N, alloc,
                   w, clock, tnow, ch, bh_mode, cleared_for, prev_modes>>

FrameOthers == OtherParticles("frame")
FrameEnds == LoopEnds("frame", "refresh")

\* refresh();
Refresh ==
    /\ pc = "refresh"
    /\ pc' = "usleep"
    /\ UNCHANGED <<variant, term, colors, exit_status, rows, cols, N, alloc, w,
                   P, i, clock, tnow, ch, bh_mode, screen, cleared_for, prev_modes>>

\* usleep(FPS_US); and back to the top of while (1).
Usleep ==
    /\ pc = "usleep"
    /\ pc' = "getch"
    /\ UNCHANGED <<variant, term, colors, exit_status, rows, cols, N, alloc, w,
                   P, i, clock, tnow, ch, bh_mode, screen, cleared_for, prev_modes>>

\* free(P);
Free ==
    /\ pc = "free"
    /\ alloc' = "freed"
    /\ pc' = "endwin"
    /\ UNCHANGED <<variant, term, colors, exit_status, rows, cols, N, w, P, i,
                   clock, tnow, ch, bh_mode, screen, cleared_for,
                   prev_modes>>

\* endwin();
Endwin ==
    /\ pc = "endwin"
    /\ term' = "shell"
    /\ pc' = "return"
    /\ UNCHANGED <<variant, colors, exit_status, rows, cols, N, alloc, w, P, i,
                   clock, tnow, ch, bh_mode, screen, cleared_for,
                   prev_modes>>

\* return 0;
Return ==
    /\ pc = "return"
    /\ exit_status' = 0
    /\ pc' = "exited"
    /\ UNCHANGED <<variant, term, colors, rows, cols, N, alloc, w, P, i, clock,
                   tnow, ch, bh_mode, screen, cleared_for, prev_modes>>

\* A second passes on CLOCK_MONOTONIC while the process runs.
Tick ==
    /\ pc # "exited"
    /\ clock < MaxClock
    /\ clock' = clock + 1
    /\ UNCHANGED <<variant, pc, term, colors, exit_status, rows, cols, N, alloc,
                   w, P, i, tnow, ch, bh_mode, screen, cleared_for,
                   prev_modes>>

Next ==
    \/ Initscr
    \/ Getmaxyx0
    \/ Calloc
    \/ FailEndwin
    \/ FailExit
    \/ InitSpawn
    \/ InitSpawnOthers
    \/ InitSpawnEnds
    \/ Getch
    \/ HandleKey
    \/ Getmaxyx
    \/ Clear
    \/ RespawnAll
    \/ RespawnAllOthers
    \/ RespawnAllEnds
    \/ BeginFrame
    \/ FrameParticle
    \/ FrameOthers
    \/ FrameEnds
    \/ Refresh
    \/ Usleep
    \/ Free
    \/ Endwin
    \/ Return
    \/ Tick

Spec == Init /\ [][Next]_vars

-----------------------------------------------------------------------------
(* Vocabulary of the properties *)

\* The positions of main() inside while (1).
LoopPcs ==
    {"getch", "keys", "getmaxyx", "clear", "respawn_all", "erase", "frame",
     "refresh", "usleep"}

\* The positions from erase() to the end of the tick.
FramePcs == {"frame", "refresh", "usleep"}

\* P[w] is about to go through the body of the frame loop.
AtWatched == pc = "frame" /\ i < N /\ i = w

\* A step of main(), not of the clock.
MainStep == clock' = clock

\* respawn() has run on P[w] at least once.
Spawned == P.for_rows # 0

OnScreen(x, y) == 0 <= x /\ x < cols /\ 0 <= y /\ y < rows

\* The characters of the glyph string.
GlyphChars == {set[n] : n \in 1..Len(set)}

\* The characters rand_char can return, over every value of rand().
Selectable == {rand_char(rnd) : rnd \in 0..RAND_MAX}

-----------------------------------------------------------------------------
(* C1: a particle whose radius is below MIN_R or whose rounded position is   *)
(* off the screen is respawned in that frame and not drawn; every draw call  *)
(* emitted is inside [0, cols) x [0, rows).                                  *)

\* The condition of the claim, for P[w] in the frame being drawn.
C1_NearOrOff ==
    LET f == Place(P, tnow, cols, rows)
    IN f.r < 300 \/ ~OnScreen(f.x, f.y)

\* C1, as a property of every step: a step on a particle in that condition
\* adds no draw call to the empty frame and gives the particle the birth time
\* of this instant and a launch vector made for the current size;
\* every draw call a step adds is made by the frame loop, for a particle not
\* in that condition, at a position on the screen.
C1_RespawnedNotDrawn ==
    [][ /\ (MainStep /\ AtWatched /\ C1_NearOrOff) =>
              /\ screen' = {}
              /\ P'.born = now_seconds
              /\ P'.for_rows = rows /\ P'.for_cols = cols
              /\ i' = i + 1
        /\ \A d \in screen' \ screen :
              AtWatched /\ ~C1_NearOrOff /\ OnScreen(d.x, d.y) ]_vars

\* P[w] was found near the centre or off the screen in this frame, a second
\* after the frame's timestamp: it carries a later birth time and no draw
\* call was made for it.
C1_Witness ==
    pc = "frame" /\ i = w + 1 /\ screen = {} /\ P.born > tnow

-----------------------------------------------------------------------------
(* C2: when a tick sees the terminal's size changed, the surface is cleared  *)
(* and every particle is respawned for the new size before anything is       *)
(* drawn in that tick.                                                       *)

\* C2: from the respawn loop of the resize branch on, the last clear() was
\* made for the rows and cols main holds; from erase() to the end of the
\* tick so was the last respawn of P[w]; and a draw call is on the surface
\* only if it was made since that clear(), or main is about to clear().
C2_ResizeRespawnsAll ==
    /\ (pc \in {"respawn_all", "erase"} \cup FramePcs) =>
           cleared_for = <<rows, cols>>
    /\ (pc \in {"erase"} \cup FramePcs) =>
           (P.for_rows = rows /\ P.for_cols = cols)
    /\ screen # {} => (pc = "clear" \/ cleared_for = <<rows, cols>>)

\* A frame drawn after a resize: N still is the count of another size.
C2_Witness ==
    /\ pc = "frame"
    /\ screen # {}
    /\ N # SwarmSize(variant, rows, cols)

-----------------------------------------------------------------------------
(* C3: at every tick N = max(200, floor(rows * cols / D)) for the current    *)
(* rows and cols, also after a resize.                                       *)

\* C3 as claimed.  The code computes N once, before the loop.
C3_SwarmTracksArea ==
    pc \in FramePcs =>
        LET n == (rows * cols) \div (IF variant = "ematrix" THEN 12 ELSE 20)
        IN N = IF n < 200 THEN 200 ELSE n

-----------------------------------------------------------------------------
(* C4: in part_000 two toggles bring the colour mode back to what it was,    *)
(* and a toggle changes nothing but the colour mode.                         *)

\* C4, as a property of every step: after two toggles the mode is the one
\* before the first of them; the mode changes only when the key tested is r
\* or R in part_000, and then it does; and the step that tests a key other
\* than q and Q leaves the swarm, the size, the surface, the terminal and the
\* exit status alone and stays in the loop.
C4_DoubleToggle ==
    [][ /\ Len(prev_modes') = 2 => bh_mode' = prev_modes'[1]
        /\ bh_mode' # bh_mode <=>
              (MainStep /\ pc = "keys" /\ variant = "part_000" /\ ch \in {"r", "R"})
        /\ (MainStep /\ pc = "keys" /\ ch \in {"r", "R", "x", "ERR"}) =>
              /\ pc' = "getmaxyx"
              /\ UNCHANGED <<P, N, w, i, rows, cols, tnow, screen, cleared_for,
                             term, exit_status, alloc>> ]_vars

\* Two toggles have been made, and a frame is being drawn.
C4_Witness == Len(prev_modes) = 2 /\ pc = "frame" /\ bh_mode = 0

-----------------------------------------------------------------------------
(* C5: if the allocation fails the program calls endwin(), exits with        *)
(* status 1 and never enters the main loop; no execution exits with the      *)
(* terminal still in curses mode.                                            *)

C5_AllocFailure ==
    /\ alloc = "null" =>
          /\ pc \in {"fail_endwin", "fail_exit", "exited"}
          /\ screen = {}
          /\ pc = "fail_exit" => term = "shell"
          /\ pc = "exited" => exit_status = 1
    /\ pc = "exited" => term = "shell"
    /\ pc # "exited" => exit_status = -1

\* The process has exited after a failed allocation.
C5_Witness == pc = "exited" /\ alloc = "null" /\ exit_status = 1

-----------------------------------------------------------------------------
(* C6: the loop is left only in a tick whose key is q or Q, at the test at   *)
(* the top of the tick; such a tick draws nothing; a frame once begun is     *)
(* carried through; the exit status is then 0.                               *)

\* C6, as a property of every step: the loop is left only by the test of a
\* key q or Q, which always leaves it; polling and testing the key draw,
\* respawn and resize nothing; the frame loop is left only for refresh(), with
\* every particle processed, each of its steps moving i towards N, and
\* refresh() is followed by usleep(); the exit after free() has status 0.
C6_QuitOnlyAtTop ==
    [][ /\ (pc \in LoopPcs /\ pc' \notin LoopPcs) =>
              (pc = "keys" /\ ch \in {"q", "Q"} /\ pc' = "free")
        /\ (MainStep /\ pc = "keys" /\ ch \in {"q", "Q"}) => pc' = "free"
        /\ pc \in {"getch", "keys"} =>
              UNCHANGED <<P, rows, cols, tnow, screen, cleared_for, i>>
        /\ pc = "frame" => pc' \in {"frame", "refresh"}
        /\ (pc = "frame" /\ pc' = "refresh") => i = N
        /\ (MainStep /\ pc = "frame" /\ pc' = "frame") => (i < i' /\ i' <= N)
        /\ (MainStep /\ pc = "refresh") => pc' = "usleep"
        /\ pc' = "exited" =>
              exit_status' = IF alloc' = "freed" THEN 0 ELSE 1 ]_vars

\* The process has exited through q or Q, after a frame that drew P[w].
C6_Witness ==
    pc = "exited" /\ exit_status = 0 /\ alloc = "freed" /\ screen # {}

-----------------------------------------------------------------------------
(* C7: every glyph assigned to a particle comes from a fixed set of 74       *)
(* characters, each of which can be selected; no drawn particle holds a      *)
(* glyph outside it.                                                         *)

C7_GlyphsFromSet ==
    /\ Spawned => P.ch \in GlyphChars
    /\ \A d \in screen : d.ch \in GlyphChars
    /\ Selectable = GlyphChars

\* C7 as claimed: the set has 74 characters.
C7_SetOf74 == C7_GlyphsFromSet /\ Cardinality(GlyphChars) = 74

\* C7 as amended: the set has 71 characters.
C7_SetOf71 == C7_GlyphsFromSet /\ Cardinality(GlyphChars) = 71

\* A particle drawn with the last character of the set.
C7_Witness == \E d \in screen : d.ch = "-" /\ P.ch = "-"

-----------------------------------------------------------------------------
(* C8: at age 0 the matrix is the identity: the particle is placed at the    *)
(* centre plus RADIUS_MULT * SCALE * (X_MULT * vx0, Y_MULT * vy0), rounded;  *)
(* on 80 x 24 the launch vector (10, 0) gives radius 15.2 and the cell       *)
(* (round(39.5 + 30.4), round(11.5)) = (70, 12), and the particle is drawn.  *)

C8_X == lroundf((cols - 1) * 50 + fmul(200, fmul(fmul(200, 76), P.vx0)))
C8_Y == lroundf((rows - 1) * 50 + fmul(100, fmul(fmul(200, 76), P.vy0)))

\* C8, as a property of the step of the frame loop on a particle of age 0.
C8_AgeZero ==
    [][ (MainStep /\ AtWatched /\ P.born = tnow) =>
           /\ expA(0) = <<100, 0, 0, 100>>
           /\ Place(P, tnow, cols, rows).x = C8_X
           /\ Place(P, tnow, cols, rows).y = C8_Y
           /\ screen' = IF OnScreen(C8_X, C8_Y)
                        THEN {[y |-> C8_Y, x |-> C8_X, ch |-> P'.ch]}
                        ELSE {}
           /\ (rows = 24 /\ cols = 80 /\ P.vx0 = 1000 /\ P.vy0 = 0) =>
                 /\ Place(P, tnow, cols, rows).r = 1520
                 /\ screen' = {[y |-> 12, x |-> 70, ch |-> P'.ch]}
                 /\ P'.vx0 = 1000 /\ P'.born = P.born ]_vars

\* The launch vector (10, 0) on 80 x 24, drawn at age 0 at (70, 12).
C8_Witness ==
    /\ pc = "frame" /\ i = w + 1
    /\ rows = 24 /\ cols = 80
    /\ P.vx0 = 1000 /\ P.vy0 = 0 /\ P.born = tnow
    /\ screen = {[y |-> 12, x |-> 70, ch |-> P.ch]}

-----------------------------------------------------------------------------
(* C9: after every respawn the length of the launch vector lies between      *)
(* 0.35 and 0.95 (ematrix.c) or 2.95 (part_000) times min((cols - 1) / 2,    *)
(* (rows - 1) / 2) of the size passed to respawn.                            *)

C9_HalfMin ==
    LET hw == (P.for_cols - 1) * 50
        hh == (P.for_rows - 1) * 50
    IN IF hw < hh THEN hw ELSE hh

C9_Inner == RoundDiv(35 * C9_HalfMin, 100)
C9_Outer == RoundDiv((IF variant = "ematrix" THEN 95 ELSE 295) * C9_HalfMin, 100)
C9_Length2 == P.vx0 * P.vx0 + P.vy0 * P.vy0

-----------------------------------------------------------------------------
(* C10: the frame's timestamp is taken after every respawn made before the   *)
(* frame loop, so a particle the loop has yet to process has birth time <=   *)
(* now and its age is never negative.                                        *)

C10_AgeNotNegative ==
    (pc = "frame" /\ i <= w) =>
        /\ P.born <= tnow
        /\ Place(P, tnow, cols, rows).age >= 0

\* After a resize and a tick of the clock, a particle about to be processed
\* that was born in the very second of the frame's timestamp.
C10_Witness ==
    /\ AtWatched
    /\ tnow > 0
    /\ P.born = tnow
    /\ N # SwarmSize(variant, rows, cols)

====
